---- MODULE Spec2Model ----
(***************************************************************************)
(* Baby Language Translator: the recorder (AudioRecorder.tsx), the App     *)
(* component that keeps the current analysis and saves it (App.tsx), and   *)
(* the history component that lists and deletes recordings                 *)
(* (RecordingHistory).  Every handler is an async function that runs to    *)
(* completion on one thread except where it awaits; each awaited call is   *)
(* split into the step that issues it and the step that resumes the        *)
(* handler with its outcome, so handlers interleave exactly at awaits.     *)
(***************************************************************************)
EXTENDS Integers, Sequences, FiniteSets, TLC

\* ------------------------------------------------------------ bounds
\* Recordings created in one run of Spec / SpecStore / SpecCap.
MaxId == 2
\* Awaited remote calls (create, list, delete) in flight at once.
MaxInflight == 2
\* Saves in one run of SpecOffline (more than LocalCap, so the cap is hit).
MaxOfflineSaves == 52
\* Invocations of startRecording in one run.
MaxAttempts == 2
\* Presses of a delete button in one run.
MaxDeletes == 2
\* handleSaveRecording calls past the guard in one run of SpecSave.
MaxSaveCalls == 4

\* ------------------------------------------------- program constants
\* App.tsx:58-59  if (recordings.length > 50) recordings.splice(50)
LocalCap == 50
\* RecordingHistory: blink.db.recordings.list({..., limit: 20})
ListLimit == 20
\* AudioRecorder.tsx:136  confidence: 75
DefaultConfidence == 75

\* ------------------------------------------------------------ values
Users == {"u1", "u2"}
\* user === null
NoUser == "none"
\* The one user of the single-user specifications.
OneUser == {"u1"}

\* currentAudioData === null
NullAudio == "<null>"
\* Base64 payloads the recorder produces; "" is the encoding of an empty blob
\* (dataUrl.split(',')[1] of "data:audio/wav;base64,").
AudioData == {"", "UklGRg=="}

\* A JSON value as JSON.parse returns it: null, or an object read through its
\* five keys.
NullAnalysis ==
  [kind |-> "null", type |-> "", urgency |-> "", confidence |-> 0,
   action |-> "", explanation |-> ""]

HungerAnalysis ==
  [kind |-> "object", type |-> "hunger", urgency |-> "high", confidence |-> 90,
   action |-> "Feed the baby", explanation |-> "Rhythmic cry"]

\* JavaScript truthiness of the two values handleSaveRecording tests.
TruthyAnalysis(a) == a.kind # "null"

TruthyAudio(s) == s # NullAudio /\ s # ""

\* ------------------------------------------------------------- state
VARIABLES
  \* App.tsx
  appUser,            \* user
  currentAnalysis,    \* currentAnalysis
  currentAudioData,   \* currentAudioData
  nextId,             \* Date.now()/Math.random(): the next fresh id and timestamp
  saves,              \* handleSaveRecording calls awaiting blink.db.recordings.create
  \* RecordingHistory
  histUser,           \* user
  recordings,         \* recordings
  usingLocalStorage,  \* usingLocalStorage
  histLoading,        \* loading
  loads,              \* loadRecordings calls awaiting blink.db.recordings.list
  deletes,            \* deleteRecording calls awaiting blink.db.recordings.delete
  \* the two backing stores
  remote,             \* the remote recordings table
  localStore,         \* localStorage: slot recordings_<userId> per user
  \* AudioRecorder.tsx
  isRecording,        \* isRecording
  isAnalyzing,        \* isAnalyzing
  mediaRecorderRef,   \* mediaRecorderRef.current: the attempt whose recorder it holds, 0 for null
  attempts,           \* one entry per startRecording invocation
  \* bookkeeping of the run
  budget,             \* saves still allowed in this run
  delBudget,          \* delete presses still allowed in this run
  io,                 \* the handler the last step resumed or ran, and the store calls it completed, in order
  lastSave,           \* per user: id of the last completed save not yet listed, 0 for none
  savedOfCurrent,     \* handleSaveRecording calls past line 33 for the analysis now current: 0, 1, or 2 for more (kept until the next analysis)
  lastDelete          \* per user: id of the last completed delete of a recording of theirs not yet listed, 0 for none

appVars == <<appUser, currentAnalysis, currentAudioData, nextId, saves>>
histVars == <<histUser, recordings, usingLocalStorage, histLoading, loads, deletes>>
storeVars == <<remote, localStore>>
recVars == <<isRecording, isAnalyzing, mediaRecorderRef, attempts>>
ghostVars == <<budget, delBudget, io, lastSave, lastDelete, savedOfCurrent>>
vars == <<appVars, histVars, storeVars, recVars, ghostVars>>

\* ----------------------------------------------------------- helpers
Min(a, b) == IF a < b THEN a ELSE b

Take(s, n) == SubSeq(s, 1, Min(n, Len(s)))

Reverse(s) == [i \in 1..Len(s) |-> s[Len(s) + 1 - i]]

Ids(s) == {s[i].id : i \in 1..Len(s)}

\* recordings.filter(r => r.id !== id)
FilterOut(s, id) == SelectSeq(s, LAMBDA r : r.id # id)

\* App.tsx:35-45  the newRecording literal
NewRecording(id, user, analysis, audio) ==
  [id |-> id, userId |-> user, type |-> analysis.type,
   urgency |-> analysis.urgency, confidence |-> analysis.confidence,
   action |-> analysis.action, audioData |-> audio,
   timestamp |-> id, createdAt |-> id]

\* localStorage.getItem: null for a slot never written, else the stored text.
NoItem == [has |-> FALSE, items |-> <<>>]

\* JSON.stringify of a list of recordings: the text that holds exactly that
\* list (every field of a Recording is a string or a number).
JSONStringify(recs) == [has |-> TRUE, items |-> recs]

\* JSON.parse of a text JSONStringify wrote.
JSONParseList(text) == text.items

\* stored ? JSON.parse(stored) : []
StoredList(slot) == IF slot.has THEN JSONParseList(slot) ELSE <<>>

\* orderBy: { createdAt: 'desc' }
RECURSIVE SortDesc(_)
SortDesc(S) ==
  IF S = {} THEN <<>>
  ELSE LET m == CHOOSE r \in S : \A q \in S : q.createdAt <= r.createdAt
       IN <<m>> \o SortDesc(S \ {m})

\* blink.db.recordings.list({ where: { userId }, orderBy: { createdAt: 'desc' }, limit: 20 })
RemoteList(userId) ==
  Take(SortDesc({r \in remote : r.userId = userId}), ListLimit)

\* The rows whose delete button the model presses: the first and the last of
\* the displayed list.
DeleteChoices == IF recordings = <<>> THEN {}
                 ELSE {recordings[1].id, recordings[Len(recordings)].id}

NoLastSave == [u \in Users |-> 0]

\* lastDelete once the delete of row id of the displayed list recs has completed.
Deleted(recs, id) ==
  LET owner == (CHOOSE i \in 1..Len(recs) : recs[i].id = id)
  IN [lastDelete EXCEPT ![recs[owner].userId] = id]

\* The remote calls awaiting their outcome.
InFlight == Cardinality(saves) + Cardinality(loads) + Cardinality(deletes)

\* ---------------------------------------------------------------- Init
InitStore ==
  /\ appUser = NoUser
  /\ currentAnalysis = NullAnalysis
  /\ currentAudioData = NullAudio
  /\ nextId = 1
  /\ saves = {}
  /\ histUser = NoUser
  /\ recordings = <<>>
  /\ usingLocalStorage = FALSE
  /\ histLoading = TRUE
  /\ loads = {}
  /\ deletes = {}
  /\ remote = {}
  /\ localStore = [u \in Users |-> NoItem]
  /\ io = <<>>
  /\ lastSave = NoLastSave
  /\ lastDelete = NoLastSave
  /\ savedOfCurrent = 0

InitRecorder ==
  /\ isRecording = FALSE
  /\ isAnalyzing = FALSE
  /\ mediaRecorderRef = 0
  /\ attempts = <<>>

Init == InitStore /\ InitRecorder /\ budget = MaxId /\ delBudget = MaxDeletes

\* ------------------------------------------------------------- App.tsx
\* handleRecordingComplete(audioData, analysis)
HandleRecordingComplete(audioData, analysis) ==
  /\ currentAudioData' = audioData
  /\ currentAnalysis' = analysis
  /\ savedOfCurrent' = 0

\* The auth callbacks of App and of RecordingHistory, both subscribed to the
\* same blink.auth.onAuthStateChanged: a signed-in user arrives, and the
\* history starts loadRecordings(user.id), which awaits the remote list.
AuthSignedIn(u) ==
  /\ InFlight < MaxInflight
  /\ appUser' = u
  /\ histUser' = u
  /\ loads' = loads \cup {[userId |-> u, expect |-> lastSave[u], forbid |-> lastDelete[u]]}
  /\ lastSave' = [lastSave EXCEPT ![u] = 0]
  /\ lastDelete' = [lastDelete EXCEPT ![u] = 0]
  /\ io' = <<>>
  /\ UNCHANGED <<currentAnalysis, currentAudioData, nextId, saves, recordings,
                 usingLocalStorage, histLoading, deletes, storeVars, recVars,
                 budget, delBudget, savedOfCurrent>>

\* The same callbacks with state.user null: no list is started.  App returns
\* its sign-in screen (the early return on !user), which unmounts the history:
\* its state is gone, the next sign-in mounts a fresh one, and what the lists
\* still awaited set on the unmounted component is lost.
AuthSignedOut ==
  /\ appUser # NoUser
  /\ appUser' = NoUser
  /\ histUser' = NoUser
  /\ recordings' = <<>>
  /\ usingLocalStorage' = FALSE
  /\ histLoading' = TRUE
  /\ loads' = {}
  /\ io' = <<>>
  /\ UNCHANGED <<currentAnalysis, currentAudioData, nextId, saves, deletes,
                 storeVars, recVars, budget, delBudget, lastSave, lastDelete,
                 savedOfCurrent>>

\* handleSaveRecording, line 33: something is missing, return at once.
SaveNoop ==
  /\ ~(TruthyAnalysis(currentAnalysis) /\ TruthyAudio(currentAudioData) /\ appUser # NoUser)
  /\ io' = <<>>
  /\ UNCHANGED <<appVars, histVars, storeVars, recVars, budget, delBudget,
                 lastSave, lastDelete, savedOfCurrent>>

\* Variant of SaveBegin whose guard forgets the analysis.
SaveBeginUnguarded ==
  /\ TruthyAudio(currentAudioData)
  /\ appUser # NoUser
  /\ budget > 0
  /\ InFlight < MaxInflight
  /\ saves' = saves \cup {NewRecording(nextId, appUser, currentAnalysis, currentAudioData)}
  /\ nextId' = nextId + 1
  /\ budget' = budget - 1
  /\ savedOfCurrent' = IF savedOfCurrent = 0 THEN 1 ELSE 2
  /\ io' = <<>>
  /\ UNCHANGED <<appUser, currentAnalysis, currentAudioData, histVars, storeVars,
                 recVars, delBudget, lastSave, lastDelete>>

\* handleSaveRecording up to its await: build newRecording, call create.
SaveBegin ==
  /\ TruthyAnalysis(currentAnalysis)
  /\ TruthyAudio(currentAudioData)
  /\ appUser # NoUser
  /\ budget > 0
  /\ InFlight < MaxInflight
  /\ saves' = saves \cup {NewRecording(nextId, appUser, currentAnalysis, currentAudioData)}
  /\ nextId' = nextId + 1
  /\ budget' = budget - 1
  /\ savedOfCurrent' = IF savedOfCurrent = 0 THEN 1 ELSE 2
  /\ io' = <<>>
  /\ UNCHANGED <<appUser, currentAnalysis, currentAudioData, histVars, storeVars,
                 recVars, delBudget, lastSave, lastDelete>>

\* create resolved: the row is in the remote table; clear the current analysis.
SaveRemoteOk(s) ==
  /\ s \in saves
  /\ saves' = saves \ {s}
  /\ remote' = remote \cup {s}
  /\ currentAnalysis' = NullAnalysis
  /\ currentAudioData' = NullAudio
  /\ savedOfCurrent' = IF savedOfCurrent = 2 THEN 2 ELSE 0
  /\ lastSave' = [lastSave EXCEPT ![s.userId] = s.id]
  /\ io' = <<"handleSaveRecording", "db.create:ok">>
  /\ UNCHANGED <<appUser, nextId, histVars, localStore, recVars, budget, delBudget, lastDelete>>

\* Variant of Capped that keeps one entry too many.
CapOffByOne(recs) == IF Len(recs) > LocalCap + 1 THEN Take(recs, LocalCap + 1) ELSE recs

\* App.tsx:58-60
Capped(recs) == IF Len(recs) > LocalCap THEN Take(recs, LocalCap) ELSE recs

\* Variant of Unshift that pushes at the end.
AppendNew(s, recs) == recs \o <<s>>

\* App.tsx:56  recordings.unshift(newRecording)
Unshift(s, recs) == <<s>> \o recs

\* create rejected: the catch block reads the user's slot, puts the new
\* recording in front, cuts the list and writes it back; then clear.
SaveRemoteFail(s) ==
  /\ s \in saves
  /\ saves' = saves \ {s}
  /\ localStore' = [localStore EXCEPT ![s.userId] =
        JSONStringify(Capped(Unshift(s, StoredList(localStore[s.userId]))))]
  /\ currentAnalysis' = NullAnalysis
  /\ currentAudioData' = NullAudio
  /\ savedOfCurrent' = IF savedOfCurrent = 2 THEN 2 ELSE 0
  /\ lastSave' = [lastSave EXCEPT ![s.userId] = s.id]
  /\ io' = <<"handleSaveRecording", "db.create:rejected", "ls.get", "ls.set">>
  /\ UNCHANGED <<appUser, nextId, histVars, remote, recVars, budget, delBudget, lastDelete>>

\* create rejected, then localStorage.getItem throws in the catch block
\* (storage access denied): the outer catch (line 67) logs; lines 56-66 are
\* skipped, so nothing is written and nothing is cleared.
SaveLocalReadFail(s) ==
  /\ s \in saves
  /\ saves' = saves \ {s}
  /\ io' = <<"handleSaveRecording", "db.create:rejected", "ls.get:threw">>
  /\ UNCHANGED <<appUser, currentAnalysis, currentAudioData, nextId, histVars,
                 storeVars, recVars, budget, delBudget, lastSave, lastDelete,
                 savedOfCurrent>>

\* Variant of SaveLocalWriteFail with the clearing done whatever happened, as
\* a finally block would.
SaveLocalWriteFailClears(s) ==
  /\ s \in saves
  /\ saves' = saves \ {s}
  /\ currentAnalysis' = NullAnalysis
  /\ currentAudioData' = NullAudio
  /\ io' = <<"handleSaveRecording", "db.create:rejected", "ls.get", "ls.set:threw">>
  /\ UNCHANGED <<appUser, nextId, histVars, storeVars, recVars, budget,
                 delBudget, lastSave, lastDelete, savedOfCurrent>>

\* create rejected, the slot read and the list built, then
\* localStorage.setItem throws (quota exceeded) and leaves the slot as it
\* was: the outer catch logs; lines 65-66 are skipped.
SaveLocalWriteFail(s) ==
  /\ s \in saves
  /\ saves' = saves \ {s}
  /\ io' = <<"handleSaveRecording", "db.create:rejected", "ls.get", "ls.set:threw">>
  /\ UNCHANGED <<appUser, currentAnalysis, currentAudioData, nextId, histVars,
                 storeVars, recVars, budget, delBudget, lastSave, lastDelete,
                 savedOfCurrent>>

\* ---------------------------------------------------- RecordingHistory
\* loadRecordings: list resolved.
LoadOk(l) ==
  /\ l \in loads
  /\ loads' = loads \ {l}
  /\ recordings' = RemoteList(l.userId)
  /\ usingLocalStorage' = FALSE
  /\ histLoading' = FALSE
  /\ io' = <<"loadRecordings", "db.list:ok">>
  /\ UNCHANGED <<appVars, histUser, deletes, storeVars, recVars, budget, delBudget, lastSave, lastDelete, savedOfCurrent>>

\* loadRecordings: list rejected; show the user's local slot instead.
LoadFail(l) ==
  /\ l \in loads
  /\ loads' = loads \ {l}
  /\ usingLocalStorage' = TRUE
  /\ recordings' = StoredList(localStore[l.userId])
  /\ histLoading' = FALSE
  /\ io' = <<"loadRecordings", "db.list:rejected", "ls.get">>
  /\ UNCHANGED <<appVars, histUser, deletes, storeVars, recVars, budget, delBudget, lastSave, lastDelete, savedOfCurrent>>

\* The delete buttons are rendered only for a signed-in user whose first load
\* has finished (the early returns on !user and on loading).
DeleteShown(id) ==
  /\ histUser # NoUser
  /\ ~histLoading
  /\ id \in DeleteChoices

\* deleteRecording(id) with usingLocalStorage false, up to its await.  The
\* closure keeps the user and the recordings of the render it was made in.
DeleteBegin(id) ==
  /\ DeleteShown(id)
  /\ delBudget > 0
  /\ delBudget' = delBudget - 1
  /\ ~usingLocalStorage
  /\ InFlight < MaxInflight
  /\ deletes' = deletes \cup {[id |-> id, user |-> histUser, recs |-> recordings]}
  /\ lastSave' = NoLastSave
  /\ io' = <<>>
  /\ UNCHANGED <<appVars, histUser, recordings, usingLocalStorage, histLoading,
                 loads, storeVars, recVars, budget, lastDelete, savedOfCurrent>>

\* delete resolved: the row is gone from the remote table and from the view.
DeleteRemoteOk(d) ==
  /\ d \in deletes
  /\ deletes' = deletes \ {d}
  /\ remote' = {r \in remote : r.id # d.id}
  /\ recordings' = FilterOut(recordings, d.id)
  /\ lastDelete' = Deleted(d.recs, d.id)
  /\ io' = <<"deleteRecording", "db.delete:ok">>
  /\ UNCHANGED <<appVars, histUser, usingLocalStorage, histLoading, loads,
                 localStore, recVars, budget, delBudget, lastSave, savedOfCurrent>>

\* delete rejected: the catch block writes the closure's recordings, without
\* the deleted one, to the closure's user's slot.
DeleteRemoteFail(d) ==
  /\ d \in deletes
  /\ deletes' = deletes \ {d}
  /\ localStore' = IF d.user # NoUser
                   THEN [localStore EXCEPT ![d.user] = JSONStringify(FilterOut(d.recs, d.id))]
                   ELSE localStore
  /\ recordings' = FilterOut(recordings, d.id)
  /\ lastDelete' = Deleted(d.recs, d.id)
  /\ io' = <<"deleteRecording", "db.delete:rejected", "ls.set">>
  /\ UNCHANGED <<appVars, histUser, usingLocalStorage, histLoading, loads,
                 remote, recVars, budget, delBudget, lastSave, savedOfCurrent>>

\* Variant of DeleteLocal that takes the local branch in either mode.
DeleteLocalAnyMode(id) ==
  /\ DeleteShown(id)
  /\ delBudget > 0
  /\ delBudget' = delBudget - 1
  /\ localStore' = [localStore EXCEPT ![histUser] = JSONStringify(FilterOut(recordings, id))]
  /\ recordings' = FilterOut(recordings, id)
  /\ lastDelete' = Deleted(recordings, id)
  /\ lastSave' = NoLastSave
  /\ io' = <<"deleteRecording", "ls.set">>
  /\ UNCHANGED <<appVars, histUser, usingLocalStorage, histLoading, loads,
                 deletes, remote, recVars, budget, savedOfCurrent>>

\* deleteRecording(id) with usingLocalStorage true: no remote call at all.
DeleteLocal(id) ==
  /\ DeleteShown(id)
  /\ delBudget > 0
  /\ delBudget' = delBudget - 1
  /\ usingLocalStorage
  /\ localStore' = [localStore EXCEPT ![histUser] = JSONStringify(FilterOut(recordings, id))]
  /\ recordings' = FilterOut(recordings, id)
  /\ lastDelete' = Deleted(recordings, id)
  /\ lastSave' = NoLastSave
  /\ io' = <<"deleteRecording", "ls.set">>
  /\ UNCHANGED <<appVars, histUser, usingLocalStorage, histLoading, loads,
                 deletes, remote, recVars, budget, savedOfCurrent>>

\* ------------------------------------------------- the store on its own
\* What the recorder hands to handleRecordingComplete: a parsed analysis, or
\* null after a failed classification.
CallbackAnalyses == {NullAnalysis, HungerAnalysis}

\* onRecordingComplete arriving from the recorder, seen from App alone.
RecordingCompleteInput ==
  /\ \E an \in CallbackAnalyses : HandleRecordingComplete("UklGRg==", an)
  /\ io' = <<>>
  /\ UNCHANGED <<appUser, nextId, saves, histVars, storeVars, recVars, budget, delBudget, lastSave, lastDelete>>

NextStore ==
  \/ RecordingCompleteInput
  \/ \E u \in OneUser : AuthSignedIn(u)
  \/ SaveNoop
  \/ SaveBegin
  \/ \E s \in saves : SaveRemoteOk(s)
  \/ \E s \in saves : SaveRemoteFail(s)
  \/ \E l \in loads : LoadOk(l)
  \/ \E l \in loads : LoadFail(l)
  \/ \E id \in DeleteChoices : DeleteBegin(id)
  \/ \E d \in deletes : DeleteRemoteOk(d)
  \/ \E d \in deletes : DeleteRemoteFail(d)
  \/ \E id \in DeleteChoices : DeleteLocal(id)

SpecStore == Init /\ [][NextStore]_vars

\* ------------------------------------------- the store with two accounts
\* The store side with the auth callback delivering either user, or none.
NextUsers ==
  \/ RecordingCompleteInput
  \/ \E u \in Users : AuthSignedIn(u)
  \/ AuthSignedOut
  \/ SaveNoop
  \/ SaveBegin
  \/ \E s \in saves : SaveRemoteOk(s)
  \/ \E s \in saves : SaveRemoteFail(s)
  \/ \E l \in loads : LoadOk(l)
  \/ \E l \in loads : LoadFail(l)
  \/ \E id \in DeleteChoices : DeleteBegin(id)
  \/ \E d \in deletes : DeleteRemoteOk(d)
  \/ \E d \in deletes : DeleteRemoteFail(d)
  \/ \E id \in DeleteChoices : DeleteLocal(id)

SpecUsers == Init /\ [][NextUsers]_vars

\* ------------------------------------ the store with the remote side down
\* The audio and the analysis of every recording the single-user runs save.
SavedAudio == "UklGRg=="

\* The recording with this id that u1 saves of HungerAnalysis.
SavedRecording(id) == NewRecording(id, "u1", HungerAnalysis, SavedAudio)

\* Saves one after the other: the save button is pressed only when no
\* earlier save is still awaiting its create call.
SaveBeginInSequence == saves = {} /\ SaveBegin

\* The state after u1 signed in, the first list was rejected and showed
\* nothing, and k recordings were then saved one after the other, each
\* create call rejected.
SignedInOffline(k) ==
  /\ appUser = "u1"
  /\ currentAnalysis = NullAnalysis
  /\ currentAudioData = NullAudio
  /\ nextId = k + 1
  /\ saves = {}
  /\ histUser = "u1"
  /\ recordings = <<>>
  /\ usingLocalStorage = TRUE
  /\ histLoading = FALSE
  /\ loads = {}
  /\ deletes = {}
  /\ remote = {}
  /\ localStore = [u \in Users |->
        IF u = "u1" /\ k > 0
        THEN JSONStringify([i \in 1..k |-> SavedRecording(k + 1 - i)])
        ELSE NoItem]
  /\ io = IF k > 0
          THEN <<"handleSaveRecording", "db.create:rejected", "ls.get", "ls.set">>
          ELSE <<"loadRecordings", "db.list:rejected", "ls.get">>
  /\ lastSave = [NoLastSave EXCEPT !["u1"] = k]
  /\ lastDelete = NoLastSave
  /\ savedOfCurrent = 0
  /\ InitRecorder

\* Every remote call is rejected, and saves come one after the other.
NextOffline ==
  \/ RecordingCompleteInput
  \/ SaveNoop
  \/ SaveBeginInSequence
  \/ \E s \in saves : SaveRemoteFail(s)

InitOffline == SignedInOffline(0) /\ budget = MaxOfflineSaves /\ delBudget = 0

SpecOffline == InitOffline /\ [][NextOffline]_vars

\* ------------------------------------ saving with either store failing
\* A signed-in user saving, create calls overlapping, each resolved or
\* rejected, and the local fallback completing or throwing.
NextSave ==
  \/ RecordingCompleteInput
  \/ SaveNoop
  \/ SaveBegin
  \/ \E s \in saves : SaveRemoteOk(s)
  \/ \E s \in saves : SaveRemoteFail(s)
  \/ \E s \in saves : SaveLocalReadFail(s)
  \/ \E s \in saves : SaveLocalWriteFail(s)

InitSave == SignedInOffline(0) /\ budget = MaxSaveCalls /\ delBudget = 0

SpecSave == InitSave /\ [][NextSave]_vars

\* ----------------------------------------- the store next to its local cap
\* One save short of the cap: the state SpecOffline is in after LocalCap - 1
\* saves.  From there every store action, remote calls resolving or not.
InitCap == SignedInOffline(LocalCap - 1) /\ budget = MaxId /\ delBudget = MaxDeletes

SpecCap == InitCap /\ [][NextStore]_vars

\* ---------------------------------------------------- AudioRecorder.tsx
\* Reply texts of blink.ai.generateText: a JSON object with the five keys,
\* the JSON text null, and two texts that are not JSON (prose, and an
\* object with prose in front of it).
HungerText ==
  "{\"type\":\"hunger\",\"urgency\":\"high\",\"confidence\":90,\"action\":\"Feed the baby\",\"explanation\":\"Rhythmic cry\"}"

ProseText == "The baby sounds hungry."

PrefixedText == "Sure! {\"type\":\"hunger\"}"

Replies == {HungerText, "null", ProseText, PrefixedText}

\* attempts[a].reply before the request has an outcome, and after it was
\* rejected (the transport failed).
NoReply == "<no reply>"

TransportError == "<rejected>"

\* JSON.parse(text): the value, or a SyntaxError.
JSONParse(text) ==
  CASE text = HungerText -> [ok |-> TRUE, value |-> HungerAnalysis]
    [] text = "null" -> [ok |-> TRUE, value |-> NullAnalysis]
    [] OTHER -> [ok |-> FALSE, value |-> NullAnalysis]

\* The record analyzeAudio returns when JSON.parse throws.
DefaultAnalysis(text) ==
  [kind |-> "object", type |-> "general", urgency |-> "medium",
   confidence |-> DefaultConfidence,
   action |-> "Check if baby needs feeding, changing, or comfort",
   explanation |-> text]

\* Variant of AnalyzeAudio that gives null when JSON.parse throws.
AnalyzeAudioNullOnError(text) ==
  LET parsed == JSONParse(text)
  IN IF parsed.ok THEN parsed.value ELSE NullAnalysis

\* analyzeAudio once generateText has resolved with text.
AnalyzeAudio(text) ==
  LET parsed == JSONParse(text)
  IN IF parsed.ok THEN parsed.value ELSE DefaultAnalysis(text)

AttemptIds == 1..Len(attempts)

\* disabled={isRecording || isAnalyzing} on the record button
StartEnabled == ~isRecording /\ ~isAnalyzing

\* disabled={!isRecording || isAnalyzing} on the stop button
StopEnabled == isRecording /\ ~isAnalyzing

\* What every step of the recorder leaves alone.
recorderFrame == <<appUser, nextId, saves, histVars, storeVars, budget, delBudget, lastSave,
                   lastDelete>>

\* audioLevel before updateLevel has computed a sample, and after.
NoLevel == "none"

SampledLevel == "sampled"

\* updateLevel (lines 102-110) of the attempt att: analyserRef.current was set
\* at line 30, and isRecording is the constant of the render in which this
\* startRecording was made.  It samples and requests the next frame, or
\* returns at once.
UpdateLevel(att) ==
  IF att.sawRecording
  THEN [att EXCEPT !.level = SampledLevel, !.frame = TRUE]
  ELSE att

\* startRecording up to await getUserMedia.  attempts[a].sawRecording is the
\* isRecording its closure holds; attempts[a].frame tells whether a frame it
\* requested is pending; attempts[a].requests counts its generateText calls.
StartRecording ==
  /\ StartEnabled
  /\ Len(attempts) < MaxAttempts
  /\ attempts' = Append(attempts,
       [st |-> "acquiring", stream |-> "none", b64 |-> NullAudio,
        reply |-> NoReply, cb |-> <<>>,
        sawRecording |-> isRecording, level |-> NoLevel, frame |-> FALSE,
        requests |-> 0])
  /\ io' = <<>>
  /\ UNCHANGED <<isRecording, isAnalyzing, mediaRecorderRef, currentAnalysis,
                 currentAudioData, recorderFrame, savedOfCurrent>>

\* getUserMedia rejected: the catch block logs and returns.
AcquireFail(a) ==
  /\ attempts[a].st = "acquiring"
  /\ attempts' = [attempts EXCEPT ![a].st = "failed"]
  /\ io' = <<>>
  /\ UNCHANGED <<isRecording, isAnalyzing, mediaRecorderRef, currentAnalysis,
                 currentAudioData, recorderFrame, savedOfCurrent>>

\* The stream was acquired, then the AudioContext or the MediaRecorder
\* constructor threw (lines 25-32): caught, the stream is left open.
SetupFail(a) ==
  /\ attempts[a].st = "acquiring"
  /\ attempts' = [attempts EXCEPT ![a].st = "failed", ![a].stream = "open"]
  /\ io' = <<>>
  /\ UNCHANGED <<isRecording, isAnalyzing, mediaRecorderRef, currentAnalysis,
                 currentAudioData, recorderFrame, savedOfCurrent>>

\* Variant of StartFail with setIsRecording(true) ahead of start().
StartFailSetsRecording(a) ==
  /\ attempts[a].st = "acquiring"
  /\ attempts' = [attempts EXCEPT ![a].st = "failed", ![a].stream = "open"]
  /\ mediaRecorderRef' = a
  /\ isRecording' = TRUE
  /\ io' = <<>>
  /\ UNCHANGED <<isAnalyzing, currentAnalysis, currentAudioData, recorderFrame, savedOfCurrent>>

\* The stream was acquired and the recorder built and stored in the ref, then
\* mediaRecorder.start() threw (line 80): caught before setIsRecording(true).
StartFail(a) ==
  /\ attempts[a].st = "acquiring"
  /\ attempts' = [attempts EXCEPT ![a].st = "failed", ![a].stream = "open"]
  /\ mediaRecorderRef' = a
  /\ io' = <<>>
  /\ UNCHANGED <<isRecording, isAnalyzing, currentAnalysis, currentAudioData,
                 recorderFrame, savedOfCurrent>>

\* startRecording ran to its end: recording, and monitorAudioLevel() has
\* made its first call of updateLevel.
AcquireOk(a) ==
  /\ attempts[a].st = "acquiring"
  /\ attempts' = [attempts EXCEPT
       ![a] = UpdateLevel([@ EXCEPT !.st = "recording", !.stream = "open"])]
  /\ mediaRecorderRef' = a
  /\ isRecording' = TRUE
  /\ io' = <<>>
  /\ UNCHANGED <<isAnalyzing, currentAnalysis, currentAudioData, recorderFrame, savedOfCurrent>>

\* mediaRecorderRef.current && mediaRecorderRef.current.state === 'recording'
RefIsRecording == mediaRecorderRef # 0 /\ attempts[mediaRecorderRef].st = "recording"

\* stopRecording: stop() makes the recorder inactive and queues its stop event.
StopRecording ==
  /\ StopEnabled
  /\ RefIsRecording
  /\ attempts' = [attempts EXCEPT ![mediaRecorderRef].st = "stopping"]
  /\ io' = <<>>
  /\ UNCHANGED <<isRecording, isAnalyzing, mediaRecorderRef, currentAnalysis,
                 currentAudioData, recorderFrame, savedOfCurrent>>

\* stopRecording when the ref holds no recorder that is recording: nothing.
StopNoop ==
  /\ StopEnabled
  /\ ~RefIsRecording
  /\ io' = <<>>
  /\ UNCHANGED <<recVars, currentAnalysis, currentAudioData, recorderFrame, savedOfCurrent>>

\* A display refresh while attempt a records: the browser runs the frame
\* callback this attempt requested, if one is pending.
DisplayRefresh(a) ==
  /\ attempts[a].st = "recording"
  /\ attempts' = [attempts EXCEPT
       ![a] = IF @.frame THEN UpdateLevel([@ EXCEPT !.frame = FALSE]) ELSE @]
  /\ io' = <<>>
  /\ UNCHANGED <<isRecording, isAnalyzing, mediaRecorderRef, currentAnalysis,
                 currentAudioData, recorderFrame, savedOfCurrent>>

\* onstop up to await of the FileReader promise (lines 41-62); the pending
\* frame is cancelled.
OnStop(a) ==
  /\ attempts[a].st = "stopping"
  /\ isAnalyzing' = TRUE
  /\ isRecording' = FALSE
  /\ attempts' = [attempts EXCEPT ![a].st = "encoding", ![a].frame = FALSE]
  /\ io' = <<>>
  /\ UNCHANGED <<mediaRecorderRef, currentAnalysis, currentAudioData, recorderFrame, savedOfCurrent>>

\* The reader loaded: base64 is known, analyzeAudio issues generateText.
EncodeOk(a, b) ==
  /\ attempts[a].st = "encoding"
  /\ attempts' = [attempts EXCEPT
       ![a].st = "classifying", ![a].b64 = b, ![a].requests = @ + 1]
  /\ io' = <<>>
  /\ UNCHANGED <<isRecording, isAnalyzing, mediaRecorderRef, currentAnalysis,
                 currentAudioData, recorderFrame, savedOfCurrent>>

\* reader.onerror: the promise rejects outside the try, onstop rejects.
EncodeFail(a) ==
  /\ attempts[a].st = "encoding"
  /\ attempts' = [attempts EXCEPT ![a].st = "threw"]
  /\ io' = <<>>
  /\ UNCHANGED <<isRecording, isAnalyzing, mediaRecorderRef, currentAnalysis,
                 currentAudioData, recorderFrame, savedOfCurrent>>

\* generateText resolved with text: callback, finally, clean up (lines 66-77).
ClassifyOk(a, text) ==
  /\ attempts[a].st = "classifying"
  /\ HandleRecordingComplete(attempts[a].b64, AnalyzeAudio(text))
  /\ isAnalyzing' = FALSE
  /\ attempts' = [attempts EXCEPT
       ![a].st = "done", ![a].stream = "closed", ![a].reply = text,
       ![a].cb = Append(@, [audio |-> attempts[a].b64, analysis |-> AnalyzeAudio(text)])]
  /\ io' = <<>>
  /\ UNCHANGED <<isRecording, mediaRecorderRef, recorderFrame>>

\* Variant of ClassifyFail whose catch block throws again, no callback.
ClassifyFailRethrows(a) ==
  /\ attempts[a].st = "classifying"
  /\ attempts' = [attempts EXCEPT ![a].st = "threw", ![a].reply = TransportError]
  /\ isAnalyzing' = FALSE
  /\ io' = <<>>
  /\ UNCHANGED <<isRecording, mediaRecorderRef, currentAnalysis, currentAudioData,
                 recorderFrame, savedOfCurrent>>

\* generateText rejected: the catch block calls back with null (lines 68-77).
ClassifyFail(a) ==
  /\ attempts[a].st = "classifying"
  /\ HandleRecordingComplete(attempts[a].b64, NullAnalysis)
  /\ isAnalyzing' = FALSE
  /\ attempts' = [attempts EXCEPT
       ![a].st = "done", ![a].stream = "closed", ![a].reply = TransportError,
       ![a].cb = Append(@, [audio |-> attempts[a].b64, analysis |-> NullAnalysis])]
  /\ io' = <<>>
  /\ UNCHANGED <<isRecording, mediaRecorderRef, recorderFrame>>

NextRecorder ==
  \/ StartRecording
  \/ \E a \in AttemptIds : AcquireFail(a)
  \/ \E a \in AttemptIds : SetupFail(a)
  \/ \E a \in AttemptIds : StartFail(a)
  \/ \E a \in AttemptIds : AcquireOk(a)
  \/ \E a \in AttemptIds : DisplayRefresh(a)
  \/ StopRecording
  \/ StopNoop
  \/ \E a \in AttemptIds : OnStop(a)
  \/ \E a \in AttemptIds, b \in AudioData : EncodeOk(a, b)
  \/ \E a \in AttemptIds : EncodeFail(a)
  \/ \E a \in AttemptIds, text \in Replies : ClassifyOk(a, text)
  \/ \E a \in AttemptIds : ClassifyFail(a)

SpecRecorder == Init /\ [][NextRecorder]_vars

\* -------------------------------------------------------- the program
Next ==
  \/ NextRecorder
  \/ \E u \in Users : AuthSignedIn(u)
  \/ AuthSignedOut
  \/ SaveNoop
  \/ SaveBegin
  \/ \E s \in saves : SaveRemoteOk(s)
  \/ \E s \in saves : SaveRemoteFail(s)
  \/ \E l \in loads : LoadOk(l)
  \/ \E l \in loads : LoadFail(l)
  \/ \E id \in DeleteChoices : DeleteBegin(id)
  \/ \E d \in deletes : DeleteRemoteOk(d)
  \/ \E d \in deletes : DeleteRemoteFail(d)
  \/ \E id \in DeleteChoices : DeleteLocal(id)

Spec == Init /\ [][Next]_vars

\* ------------------------------------------------------------ claims
\* The list of recordings in a user's local slot.
LocalList(u) == StoredList(localStore[u])

\* C1: once a save has completed, the next list for the same user returns
\* that recording as its first entry, whichever store served the save and
\* whichever served the list.  (A list call carries in expect the id of the
\* save that had completed for its user when it was issued; no delete was
\* pressed in between.)
C1_SaveThenListReturnsItFirst ==
  [][\A l \in loads :
       (l \notin loads' /\ l.expect # 0)
         => (recordings' # <<>> /\ recordings'[1].id = l.expect)]_vars

\* C2: after a delete of a recording has completed, a list issued afterwards
\* for its user does not return that id, also when the remote delete call was
\* rejected.  (A list call carries in forbid the id whose delete had completed
\* when it was issued.)
C2_DeletedNeverListedAgain ==
  [][\A l \in loads :
       (l \notin loads' /\ l.forbid # 0) => l.forbid \notin Ids(recordings')]_vars

\* C3: in every reachable state every user's local list holds at most 50
\* recordings.
C3_LocalListAtMostCap == \A u \in Users : Len(LocalList(u)) <= LocalCap

\* C3 happens: 51 recordings were written locally, none went to the remote
\* table, no delete was pressed, and the list is full.
C3_Witness ==
  /\ Len(LocalList("u1")) = LocalCap
  /\ nextId = LocalCap + 2
  /\ saves = {}
  /\ remote = {}
  /\ delBudget = MaxDeletes

\* C4: with every create call rejected, after n saves in sequence the local
\* list holds exactly the min(n, 50) most recently saved recordings, the most
\* recent first.
C4_OfflineSavesKeepNewest ==
  LET n == nextId - 1 - Cardinality(saves)
  IN /\ Len(LocalList("u1")) = Min(n, LocalCap)
     /\ \A i \in 1..Len(LocalList("u1")) : LocalList("u1")[i] = SavedRecording(n + 1 - i)

\* C4 happens: 51 saves are done, the list has 50 entries and the oldest
\* recording, id 1, is the one that is gone.
C4_Witness ==
  /\ nextId = LocalCap + 2
  /\ saves = {}
  /\ Len(LocalList("u1")) = LocalCap
  /\ LocalList("u1")[LocalCap].id = 2

\* C5: when the reply text is not valid JSON, the analysis handed to the
\* completion callback is the default record: type general, urgency medium,
\* confidence 75, the fixed action text, and the raw reply as explanation.
C5_NonJSONReplyGivesDefault ==
  \A a \in AttemptIds :
    attempts[a].reply \in {ProseText, PrefixedText} =>
      attempts[a].cb =
        <<[audio |-> attempts[a].b64,
           analysis |->
             [kind |-> "object", type |-> "general", urgency |-> "medium",
              confidence |-> 75,
              action |-> "Check if baby needs feeding, changing, or comfort",
              explanation |-> attempts[a].reply]]>>

\* C5 happens: a classification was answered with a text that is not JSON.
C5_Witness ==
  \E a \in AttemptIds : attempts[a].reply = PrefixedText /\ attempts[a].st = "done"

\* C6: when the classification request is rejected, the stop handler calls
\* the completion callback once with the encoded audio and a null analysis,
\* and returns instead of throwing.
C6_TransportFailureGivesNull ==
  \A a \in AttemptIds :
    attempts[a].reply = TransportError =>
      /\ attempts[a].st = "done"
      /\ attempts[a].cb = <<[audio |-> attempts[a].b64, analysis |-> NullAnalysis]>>

\* C6 happens: a classification request was rejected.
C6_Witness ==
  \E a \in AttemptIds : attempts[a].reply = TransportError /\ attempts[a].b64 # ""

\* The steps of io that touch localStorage, and those that are a rejected
\* remote call.
LocalAccessAt(i) == io[i] \in {"ls.get", "ls.set"}

RemoteRejectedAt(j) ==
  io[j] \in {"db.create:rejected", "db.list:rejected", "db.delete:rejected"}

\* C7 as stated: save, list and delete touch the local slot only after
\* their remote call was rejected, delete whatever usingLocalStorage is.
C7_LocalOnlyAfterRemoteFailure ==
  \A i \in 1..Len(io) :
    LocalAccessAt(i) => \E j \in 1..(i - 1) : RemoteRejectedAt(j)

\* C7 amended: save and list touch the local slot only after their remote
\* call was rejected, and so does delete when usingLocalStorage is false;
\* with usingLocalStorage true delete writes the local slot directly.
C7_LocalAfterFailureOrLocalMode ==
  \A i \in 1..Len(io) :
    LocalAccessAt(i) =>
      \/ \E j \in 1..(i - 1) : RemoteRejectedAt(j)
      \/ io = <<"deleteRecording", "ls.set">> /\ usingLocalStorage

\* C7 happens: a delete in local mode wrote the slot with no remote call,
\* after a save had fallen back to it.
C7_Witness ==
  /\ io = <<"deleteRecording", "ls.set">>
  /\ usingLocalStorage
  /\ nextId > 1

\* C8: a start that fails (getUserMedia, the recorder setup or start()
\* throws) changes neither isRecording nor isAnalyzing, so the start control
\* is as enabled as before, and the failed attempt never calls the completion
\* callback, then or later.
C8_FailedStartStaysIdle ==
  [][\A a \in AttemptIds :
       /\ (attempts[a].st = "acquiring" /\ attempts'[a].st = "failed")
            => /\ isRecording' = isRecording
               /\ isAnalyzing' = isAnalyzing
               /\ attempts'[a].cb = <<>>
               /\ UNCHANGED <<currentAnalysis, currentAudioData>>
       /\ attempts[a].st = "failed"
            => attempts'[a].st = "failed" /\ attempts'[a].cb = <<>>]_vars

\* C8 happens: the only start so far failed after it had built the recorder,
\* and the start control is enabled.
C8_Witness ==
  /\ Len(attempts) = 1
  /\ attempts[1].st = "failed"
  /\ mediaRecorderRef = 1
  /\ StartEnabled

\* C9: no step puts into a user's local slot a recording that the remote
\* table holds and the slot did not, nor into the remote table a recording
\* that a local slot holds.
C9_NoCopyBetweenStores ==
  [][/\ \A u \in Users : \A i \in 1..Len(LocalList(u)') :
          LocalList(u)'[i] \in remote
            => \E k \in 1..Len(LocalList(u)) : LocalList(u)[k] = LocalList(u)'[i]
     /\ \A r \in remote' \ remote :
          \A u \in Users : \A k \in 1..Len(LocalList(u)) : LocalList(u)[k] # r]_vars

\* C10: once every stop handler has finished, the recorder is Idle again:
\* neither isRecording nor isAnalyzing is left true.
C10_StoppedRecordingReturnsToIdle ==
  (\A a \in AttemptIds : attempts[a].st \in {"failed", "done", "threw"})
    => (~isRecording /\ ~isAnalyzing)

\* C11: while an attempt is Recording, its sampling loop is alive: a level has
\* been computed and the next display refresh tick is scheduled.
C11_SamplingLoopRunsWhileRecording ==
  \A a \in AttemptIds :
    attempts[a].st = "recording"
      => (attempts[a].level = SampledLevel /\ attempts[a].frame)

\* C12: no classification request is in flight while the microphone stream
\* of that recording is still open, and the audio is encoded by then.
C12_StreamReleasedBeforeClassification ==
  \A a \in AttemptIds :
    attempts[a].st = "classifying"
      => (attempts[a].stream # "open" /\ attempts[a].b64 # NullAudio)

\* C13: in every state in which the recorder is Recording (the flag is set, or
\* a MediaRecorder it started is recording) or a classification request is in
\* progress, the start control is disabled.
C13_StartDisabledWhileBusy ==
  (isRecording \/ \E a \in AttemptIds : attempts[a].st \in {"recording", "classifying"})
    => ~StartEnabled

\* C14: a recording whose stop handler has finished has caused exactly one
\* request to the AI endpoint and exactly one call of the completion
\* callback, and no recording ever causes more than one of either.
C14_OneRequestOneCallbackPerStop ==
  \A a \in AttemptIds :
    /\ attempts[a].requests <= 1
    /\ Len(attempts[a].cb) <= 1
    /\ attempts[a].st \in {"done", "threw"}
         => (attempts[a].requests = 1 /\ Len(attempts[a].cb) = 1)

\* C15: a step that completes a deleteRecording call takes at most one
\* recording out of each user's local list and leaves every other recording
\* of the list in place, with unchanged fields and in unchanged order.
C15_DeleteRemovesOnlyThatRecording ==
  [][(io' # <<>> /\ io'[1] = "deleteRecording")
       => \A u \in Users :
            \E id \in Ids(LocalList(u)) \cup {0} :
              LocalList(u)' = FilterOut(LocalList(u), id)]_vars

\* C16: the recorder is never Recording and Analyzing at once.
C16_NeverRecordingAndAnalyzing == ~(isRecording /\ isAnalyzing)

\* C17: whenever the recorder is Idle and no start is awaiting its
\* microphone, no stream that startRecording acquired is still open.
C17_IdleHoldsNoOpenStream ==
  (~isRecording /\ ~isAnalyzing /\ \A a \in AttemptIds : attempts[a].st # "acquiring")
    => \A a \in AttemptIds : attempts[a].stream # "open"

\* C18: once no create call is pending, at most one Recording has been
\* created, in the remote table and the local lists together, from the
\* analysis of the latest completed recording.
C18_AnalysisSavedAtMostOnce == (saves = {}) => savedOfCurrent <= 1

\* C19: the slot recordings_<U> holds only recordings whose userId is U.
C19_LocalSlotHoldsOwnRecordings ==
  \A u \in Users : \A i \in 1..Len(LocalList(u)) : LocalList(u)[i].userId = u

\* The recordings the two stores hold.
StoredRecordings ==
  remote \cup UNION {{LocalList(u)[i] : i \in 1..Len(LocalList(u))} : u \in Users}

SaveFailedInBoth ==
  /\ io # <<>>
  /\ io[1] = "handleSaveRecording"
  /\ io[Len(io)] \in {"ls.get:threw", "ls.set:threw"}

\* C21: a step that completes a save that failed in both stores leaves the
\* current analysis, the audio data and both stores unchanged; and a step of
\* handleSaveRecording that changes the current analysis or audio data has
\* written the recording to the remote table or to the local slot.
C21_FailedSaveKeepsAnalysis ==
  [][/\ SaveFailedInBoth'
          => UNCHANGED <<currentAnalysis, currentAudioData, remote, localStore>>
     /\ (/\ io' # <<>>
         /\ io'[1] = "handleSaveRecording"
         /\ <<currentAnalysis, currentAudioData>>' # <<currentAnalysis, currentAudioData>>)
          => (remote' # remote \/ localStore' # localStore)]_vars

\* A save failed in both stores with its analysis still current, so the save
\* button works again.
C21_Witness ==
  /\ SaveFailedInBoth
  /\ TruthyAnalysis(currentAnalysis)
  /\ TruthyAudio(currentAudioData)
  /\ appUser # NoUser
  /\ savedOfCurrent >= 1

====
